---- MODULE Spec2Model ----
(***************************************************************************)
(* State machine of the OneDrive authentication-and-sync supervisor        *)
(* (Electron main process): auth runs, the auth window, the auth           *)
(* sub-process, the monitor sub-process and the events sent to the UI.     *)
(* Every action is one callback of the single-threaded event loop: the     *)
(* code between two awaits / event deliveries runs atomically.             *)
(***************************************************************************)
EXTENDS Integers, Sequences, FiniteSets, TLC

\* ------------------------------------------------------------------ bounds
MaxRuns == 2      \* invocations of 'start-onedrive-auth'
MaxFaults == 1    \* uncaught exceptions / unhandled rejections
MaxSyncs == 2     \* invocations of 'force-sync'
MaxLoad == 2      \* stimuli explored together: see Load
MaxConfigLines == 2   \* lines of a configuration file

Runs == 1..MaxRuns
Syncs == 1..MaxSyncs

\* ------------------------------------------------------------------ state
VARIABLES
    \* module-level references of the program (0 models null)
    authWindow,             \* let authWindow: the run that opened the referenced window
    onedriveProcess,        \* let onedriveProcess: the run that spawned the referenced process
    onedriveMonitorProcess, \* let onedriveMonitorProcess: index into mon
    isQuitting,             \* let isQuitting
    activeAuthRun,          \* let activeAuthRun
    settled,                \* run.settled of every AuthRun object
    \* environment the program acts on
    phase,                  \* "boot" until app.whenReady() has fired
    installed,              \* whether `which onedrive` exits 0
    fs,                     \* the files: request.url, response.url, config, refresh_token
    winSt,                  \* the auth BrowserWindow opened by each run
    proc,                   \* the auth sub-process spawned by each run
    mon,                    \* the monitor sub-processes, in spawn order
    tokenLost,              \* refresh_token was removed behind the program's back
    scope,                  \* what a behaviour explores: overlapping auth runs or repeated force-syncs
    exitHooks,              \* once('exit') listeners added by handleAuthRedirect, per process
    closeHooks,             \* once('close') listeners added by handleAuthRedirect, per process
    \* position of every handler
    pc,                     \* 'start-onedrive-auth' handler of each run
    result,                 \* what that handler returned
    waitSt,                 \* the promise of waitForAuthUrl: pending / resolved / rejected
    poll,                   \* the checkFile loop: off / timer / read
    timeoutArmed,           \* the 120 s timer of waitForAuthUrl
    authUrl,                \* initialAuthUrl of the window of each run
    redirectHandled,        \* the latch of each window
    rpc,                    \* handleAuthRedirect of each run
    redirUrl,               \* its redirectUrl argument
    faults,                 \* uncaught faults so far
    spc,                    \* 'force-sync' handler of each invocation
    sres,                   \* what that handler returned
    spawned,                \* commands spawned by each force-sync invocation
    monTouched,             \* whether a force-sync invocation stopped or started the monitor
    wasRunning,             \* const wasRunning of each force-sync invocation
    stopTarget,             \* the monitor the listeners of stopOnedriveMonitorGracefully sit on
    stopTimer,              \* its 3 s timer is armed
    forced,                 \* the monitors that were sent SIGKILL
    \* what reached the presentation layer
    ui,                     \* 'auth-result' events of each run, in order
    uiOther,                \* events that belong to no run
    \* history (not read by the program)
    lateCall                \* settleAuthRun / failAuthFlow was called on a settled run

progVars == <<authWindow, onedriveProcess, onedriveMonitorProcess, isQuitting,
              activeAuthRun, settled>>
envVars == <<phase, installed, fs, winSt, proc, mon, tokenLost, scope, exitHooks,
            closeHooks>>
ctlVars == <<pc, result, waitSt, poll, timeoutArmed, authUrl, redirectHandled,
             rpc, redirUrl, faults>>
syncVars == <<spc, sres, spawned, monTouched, wasRunning, stopTarget, stopTimer,
             forced>>
histVars == <<ui, uiOther, lateCall>>
vars == <<progVars, envVars, ctlVars, syncVars, histVars>>

\* ------------------------------------------------------------------ files
NoFile == [exists |-> FALSE, content |-> <<>>]
File(c) == [exists |-> TRUE, content |-> c]

\* String.prototype.trim over a text of tokens: "ws" is a whitespace character
RECURSIVE TrimLeft(_)
TrimLeft(s) ==
    IF s # <<>> /\ Head(s) = "ws" THEN TrimLeft(Tail(s)) ELSE s

RECURSIVE TrimRight(_)
TrimRight(s) ==
    IF s # <<>> /\ s[Len(s)] = "ws" THEN TrimRight(SubSeq(s, 1, Len(s) - 1)) ELSE s

trim(s) == TrimRight(TrimLeft(s))

\* the text the auth sub-process writes to request.url (the URL and a newline)
RequestText == <<"authorize", "ws">>
\* what an earlier run left behind in request.url / response.url
StaleText == <<"stale">>

\* the configuration file is a list of key/value lines
DefaultConfig ==
    << [key |-> "sync_dir", val |-> "OneDrive-Temp"],
       [key |-> "sync_business_shared_items", val |-> "false"] >>
CustomConfig == << [key |-> "sync_dir", val |-> "custom"] >>
OtherConfig == << [key |-> "skip_file", val |-> "custom"] >>

\* ------------------------------------------------------------------ URLs
\* new URL(ustr): the texts the auth window can navigate to
Parse(u) ==
    CASE u = "authorize"    -> [ok |-> TRUE, hostname |-> "login.microsoftonline.com", native |-> FALSE]
      [] u = "stale"        -> [ok |-> TRUE, hostname |-> "login.microsoftonline.com", native |-> FALSE]
      [] u = "nativeclient" -> [ok |-> TRUE, hostname |-> "login.microsoftonline.com", native |-> TRUE]
      [] u = "localhost"    -> [ok |-> TRUE, hostname |-> "localhost", native |-> FALSE]
      [] u = "loopback"     -> [ok |-> TRUE, hostname |-> "127.0.0.1", native |-> FALSE]
      [] u = "example"      -> [ok |-> TRUE, hostname |-> "example.com", native |-> TRUE]
      [] OTHER              -> [ok |-> FALSE, hostname |-> "", native |-> FALSE]

NavUrls == {"authorize", "stale", "nativeclient", "localhost", "example", "garbage"}

isRedirectUrl(url, initialAuthUrl) ==
    IF <<url>> = initialAuthUrl THEN FALSE
    ELSE IF ~Parse(url).ok THEN FALSE
    ELSE LET u == Parse(url)
             isNativeClient == u.hostname = "login.microsoftonline.com" /\ u.native
             isLocal == u.hostname = "localhost" \/ u.hostname = "127.0.0.1"
         IN  isNativeClient \/ isLocal

\* ------------------------------------------------------------------ shared state as a value
\* the state the helper functions read and write, as one record
G ==
    [ authWindow |-> authWindow, onedriveProcess |-> onedriveProcess,
      onedriveMonitorProcess |-> onedriveMonitorProcess, isQuitting |-> isQuitting,
      activeAuthRun |-> activeAuthRun, settled |-> settled,
      fs |-> fs, winSt |-> winSt, proc |-> proc, mon |-> mon,
      ui |-> ui, uiOther |-> uiOther, lateCall |-> lateCall ]

Commit(g) ==
    /\ authWindow' = g.authWindow
    /\ onedriveProcess' = g.onedriveProcess
    /\ onedriveMonitorProcess' = g.onedriveMonitorProcess
    /\ isQuitting' = g.isQuitting
    /\ activeAuthRun' = g.activeAuthRun
    /\ settled' = g.settled
    /\ fs' = g.fs
    /\ winSt' = g.winSt
    /\ proc' = g.proc
    /\ mon' = g.mon
    /\ ui' = g.ui
    /\ uiOther' = g.uiOther
    /\ lateCall' = g.lateCall

\* the part of G the program itself holds (no history)
Prog(g) ==
    [ authWindow |-> g.authWindow, onedriveProcess |-> g.onedriveProcess,
      onedriveMonitorProcess |-> g.onedriveMonitorProcess,
      activeAuthRun |-> g.activeAuthRun, settled |-> g.settled,
      winSt |-> g.winSt, proc |-> g.proc, mon |-> g.mon,
      ui |-> g.ui, uiOther |-> g.uiOther ]

\* webContents.send(channel, payload): an event of run `run` (0: of no run)
send(g, channel, run, status, message) ==
    IF run # 0 /\ channel = "auth-result"
    THEN [g EXCEPT !.ui[run] = Append(@, [status |-> status, message |-> message])]
    ELSE [g EXCEPT !.uiOther = @ \cup
              {[channel |-> channel, status |-> status, message |-> message]}]

uiSend(g, channel, run, status, message) ==
    IF g.isQuitting THEN g ELSE send(g, channel, run, status, message)

\* A sub-process: st is "none" (not spawned), "starting" / "running" (alive, before /
\* after it wrote request.url), "exited" ('exit' or 'error' emitted, 'close' pending)
\* or "closed"; sig: a SIGTERM was sent to the live process; exitCode: the exitCode
\* property holds a number
Alive(pr) == pr.st \in {"starting", "running"}
Spawned == [st |-> "starting", sig |-> FALSE, exitCode |-> FALSE]
Ended(st, hasCode) == [st |-> st, sig |-> FALSE, exitCode |-> hasCode]

\* ChildProcess.kill(): SIGTERM to a process that is still alive
kill(procs, p) ==
    IF Alive(procs[p]) THEN [procs EXCEPT ![p].sig = TRUE] ELSE procs

\* BrowserWindow.close(): the window is destroyed ('closed') later
close(wins, w) ==
    IF wins[w] = "open" THEN [wins EXCEPT ![w] = "closing"] ELSE wins

isDestroyed(wins, w) == wins[w] = "closed"

settleAuthRun(g, run) ==
    IF run = 0 THEN g
    ELSE IF g.settled[run] THEN [g EXCEPT !.lateCall = TRUE]
    ELSE [g EXCEPT !.settled[run] = TRUE,
                   !.activeAuthRun = IF @ = run THEN 0 ELSE @]

\* the teardown of failAuthFlow, after its guard
teardown(g, message, run) ==
    LET g1 == settleAuthRun(g, run)
        g2 == [g1 EXCEPT
                 !.winSt = IF g1.authWindow # 0 /\ ~isDestroyed(g1.winSt, g1.authWindow)
                           THEN close(@, g1.authWindow) ELSE @,
                 !.authWindow = 0]
        g3 == [g2 EXCEPT
                 !.proc = IF g2.onedriveProcess # 0 THEN kill(@, g2.onedriveProcess) ELSE @,
                 !.onedriveProcess = 0]
    IN  uiSend(g3, "auth-result", run, "error", message)

\* failAuthFlow without `|| run.settled` in its guard
failAuthFlow_NoSettledGuard(g, message, run) ==
    IF run = 0 THEN g ELSE teardown(g, message, run)

failAuthFlow(g, message, run) ==
    IF run = 0 THEN g
    ELSE IF g.settled[run] THEN [g EXCEPT !.lateCall = TRUE]
    ELSE teardown(g, message, run)

startOnedriveMonitor(g) ==
    LET g1 == IF g.onedriveMonitorProcess # 0
              THEN [g EXCEPT !.mon = kill(@, g.onedriveMonitorProcess),
                             !.onedriveMonitorProcess = 0]
              ELSE g
        g2 == [g1 EXCEPT !.mon = Append(@, [Spawned EXCEPT !.st = "running"]),
                         !.onedriveMonitorProcess = Len(g1.mon) + 1]
    IN  uiSend(g2, "auth-result", 0, "info", "monitor-started")

\* decideAfterExit of handleAuthRedirect(redirectUrl, run)
decideAfterExit(g, run) ==
    IF g.fs["token"].exists
    THEN startOnedriveMonitor(send(g, "auth-result", run, "completed", "completed"))
    ELSE send(g, "auth-result", run, "error", "no-token")

\* the once('exit') / once('close') listeners of one process, run in turn
RECURSIVE decideAll(_, _)
decideAll(g, S) ==
    IF S = {} THEN g
    ELSE LET r == CHOOSE x \in S : \A y \in S : x <= y
         IN  decideAll(decideAfterExit(g, r), S \ {r})

\* ensureOnedriveConfig: the default is written unless the text mentions sync_dir
hasSyncDir(file) ==
    \E i \in 1..Len(file.content) : file.content[i].key = "sync_dir"

ensureOnedriveConfig(files) ==
    LET existing == IF files["config"].exists THEN files["config"] ELSE File(<<>>)
    IN  IF ~hasSyncDir(existing)
        THEN [files EXCEPT !["config"] = File(DefaultConfig)]
        ELSE files

\* the catch block of the 'start-onedrive-auth' handler of run r
catchAuth(g, r) ==
    send(failAuthFlow(g, "failed", g.activeAuthRun), "auth-result", r, "error", "exception")

\* openAuthWindow(authUrl, run) up to the first await
openAuthWindow(g, r) ==
    LET g1 == IF g.authWindow # 0
              THEN [g EXCEPT !.winSt = close(@, g.authWindow)]
              ELSE g
    IN  [g1 EXCEPT !.winSt[r] = "open", !.authWindow = r]

\* ------------------------------------------------------------------ initial state
BootWith(configs) ==
    /\ authWindow = 0
    /\ onedriveProcess = 0
    /\ onedriveMonitorProcess = 0
    /\ isQuitting = FALSE
    /\ activeAuthRun = 0
    /\ settled = [r \in Runs |-> FALSE]
    /\ phase = "boot"
    /\ installed \in BOOLEAN
    /\ \E req \in {NoFile, File(StaleText)}, resp \in {NoFile, File(StaleText)},
          cfg \in configs,
          tok \in {NoFile, File(<<>>)} :
            fs = [f \in {"request", "response", "config", "token"} |->
                    CASE f = "request" -> req
                      [] f = "response" -> resp
                      [] f = "config" -> cfg
                      [] OTHER -> tok]
    /\ winSt = [r \in Runs |-> "none"]
    /\ proc = [r \in Runs |-> Ended("none", FALSE)]
    /\ mon = <<>>
    /\ tokenLost = FALSE
    /\ exitHooks = [r \in Runs |-> {}]
    /\ closeHooks = [r \in Runs |-> {}]
    /\ pc = [r \in Runs |-> "idle"]
    /\ result = [r \in Runs |-> "none"]
    /\ waitSt = [r \in Runs |-> "none"]
    /\ poll = [r \in Runs |-> "off"]
    /\ timeoutArmed = [r \in Runs |-> FALSE]
    /\ authUrl = [r \in Runs |-> <<>>]
    /\ redirectHandled = [r \in Runs |-> FALSE]
    /\ rpc = [r \in Runs |-> "idle"]
    /\ redirUrl = [r \in Runs |-> ""]
    /\ faults = 0
    /\ spc = [s \in Syncs |-> "idle"]
    /\ sres = [s \in Syncs |-> "none"]
    /\ spawned = [s \in Syncs |-> {}]
    /\ monTouched = [s \in Syncs |-> FALSE]
    /\ wasRunning = [s \in Syncs |-> FALSE]
    /\ stopTarget = [s \in Syncs |-> 0]
    /\ stopTimer = [s \in Syncs |-> FALSE]
    /\ forced = {}
    /\ ui = [r \in Runs |-> <<>>]
    /\ uiOther = {}
    /\ lateCall = FALSE

\* the handlers never read the configuration file: their behaviours start without one
Boot == BootWith({NoFile})

\* behaviours with up to MaxRuns auth runs and one force-sync
Init == Boot /\ scope = "auth"

\* behaviours with one auth run and up to MaxSyncs force-syncs
SyncInit == Boot /\ scope = "sync"

\* ------------------------------------------------------------------ exploration bound
\* What the surroundings throw at the program in one behaviour: an overlapping
\* auth run weighs 2; an uncaught fault, a force-sync, the quit and the loss of
\* the token weigh 1 each.
Load ==
    2 * Cardinality({r \in Runs : r > 1 /\ pc[r] # "idle"})
    + faults
    + Cardinality({k \in Syncs : spc[k] # "idle"})
    + (IF isQuitting THEN 1 ELSE 0)
    + (IF tokenLost THEN 1 ELSE 0)

\* ------------------------------------------------------------------ startup
\* app.whenReady().then(...): maybeStartMonitorIfToken
maybeStartMonitorIfToken(g) ==
    IF g.fs["token"].exists
    THEN startOnedriveMonitor(g)
    ELSE uiSend(g, "auth-result", 0, "info", "please-authenticate")

Startup ==
    /\ phase = "boot"
    /\ phase' = "ready"
    /\ Commit(maybeStartMonitorIfToken(G))
    /\ UNCHANGED <<installed, tokenLost, scope, exitHooks, closeHooks, ctlVars, syncVars>>

\* ------------------------------------------------------------------ 'start-onedrive-auth'
\* beginAuthRun
beginAuthRun(g, r) == [g EXCEPT !.activeAuthRun = r]

\* the handler up to `await checkOnedriveInstallation()`; ids are handed out in order
StartAuth(r) ==
    /\ phase = "ready"
    /\ pc[r] = "idle"
    /\ \A q \in Runs : q < r => pc[q] # "idle"
    /\ scope = "sync" => r = 1
    /\ Load + (IF r > 1 THEN 2 ELSE 0) <= MaxLoad
    /\ Commit(beginAuthRun(G, r))
    /\ pc' = [pc EXCEPT ![r] = "check"]
    /\ UNCHANGED <<phase, installed, tokenLost, scope, exitHooks, closeHooks, result, waitSt, poll,
                   timeoutArmed, authUrl, redirectHandled, rpc, redirUrl, faults,
                   syncVars>>

\* checkOnedriveInstallation that resolves true whatever `which` answers
checkOnedriveInstallation_AlwaysTrue == TRUE

\* checkOnedriveInstallation: `which onedrive` exits 0 iff the client is installed
checkOnedriveInstallation == installed

\* the answer of the installation check arrives; when the client is installed the
\* handler goes on to fs.mkdir(ONEDRIVE_AUTH_DIR), which may throw, and to
\* ensureOnedriveConfig() (nothing the program reads changes between the two awaits)
CheckInstalled(r) ==
    /\ pc[r] = "check"
    /\ IF ~checkOnedriveInstallation
       THEN /\ Commit(settleAuthRun(send(G, "auth-result", r, "error", "not-installed"), r))
            /\ pc' = [pc EXCEPT ![r] = "done"]
            /\ result' = [result EXCEPT ![r] = "onedrive-not-installed"]
       ELSE \E ok \in BOOLEAN :
            IF ok
            THEN /\ Commit([G EXCEPT !.fs = ensureOnedriveConfig(@)])
                 /\ pc' = [pc EXCEPT ![r] = "unlink1"]
                 /\ UNCHANGED result
            ELSE /\ Commit(catchAuth(G, r))
                 /\ pc' = [pc EXCEPT ![r] = "done"]
                 /\ result' = [result EXCEPT ![r] = "failed"]
    /\ UNCHANGED <<phase, installed, tokenLost, scope, exitHooks, closeHooks, waitSt, poll,
                   timeoutArmed, authUrl, redirectHandled, rpc, redirUrl, faults,
                   syncVars>>

NonEmpty(file) == file.exists /\ file.content # <<>>

\* spawn('onedrive', ... '--reauth', '--auth-files' ...), the listeners, and
\* waitForAuthUrl up to its first checkFile(): all in one turn of the event loop
SpawnAndWait(g, r) ==
    /\ Commit([g EXCEPT !.proc[r] = Spawned, !.onedriveProcess = r])
    /\ pc' = [pc EXCEPT ![r] = "wait"]
    /\ waitSt' = [waitSt EXCEPT ![r] = "pending"]
    /\ timeoutArmed' = [timeoutArmed EXCEPT ![r] = TRUE]
    /\ poll' = [poll EXCEPT ![r] = IF g.fs["request"].exists THEN "read" ELSE "timer"]

\* await fs.unlink(ONEDRIVE_REQUEST_FILE): a missing file throws into the catch,
\* which skips the second unlink
UnlinkRequest(r) ==
    /\ pc[r] = "unlink1"
    /\ IF fs["request"].exists
       THEN /\ Commit([G EXCEPT !.fs["request"] = NoFile])
            /\ pc' = [pc EXCEPT ![r] = "unlink2"]
            /\ UNCHANGED <<waitSt, timeoutArmed, poll>>
       ELSE SpawnAndWait(G, r)
    /\ UNCHANGED <<phase, installed, tokenLost, scope, exitHooks, closeHooks, result,
                   authUrl, redirectHandled, rpc, redirUrl, faults,
                   syncVars>>

\* await fs.unlink(ONEDRIVE_RESPONSE_FILE), then the spawn
UnlinkResponse(r) ==
    /\ pc[r] = "unlink2"
    /\ SpawnAndWait([G EXCEPT !.fs["response"] = NoFile], r)
    /\ UNCHANGED <<phase, installed, tokenLost, scope, exitHooks, closeHooks, result,
                   authUrl, redirectHandled, rpc, redirUrl, faults,
                   syncVars>>

\* ------------------------------------------------------------------ waitForAuthUrl
\* setTimeout(checkFile, 200) fires: fssync.existsSync(ONEDRIVE_REQUEST_FILE)
PollTimer(r) ==
    /\ poll[r] = "timer"
    /\ poll' = [poll EXCEPT ![r] = IF fs["request"].exists THEN "read" ELSE "timer"]
    /\ UNCHANGED <<progVars, envVars, pc, result, waitSt, timeoutArmed, authUrl,
                   redirectHandled, rpc, redirUrl, faults, syncVars, histVars>>

\* the continuation of the handler after `await waitForAuthUrl()` resolved
AuthUrlReceived(r, url) ==
    /\ Commit(openAuthWindow(G, r))
    /\ authUrl' = [authUrl EXCEPT ![r] = url]
    /\ redirectHandled' = [redirectHandled EXCEPT ![r] = FALSE]
    /\ pc' = [pc EXCEPT ![r] = "done"]
    /\ result' = [result EXCEPT ![r] = "auth-started"]

\* the continuation of the handler after `await waitForAuthUrl()` rejected
AuthUrlFailed(r) ==
    /\ Commit(catchAuth(G, r))
    /\ pc' = [pc EXCEPT ![r] = "done"]
    /\ result' = [result EXCEPT ![r] = "failed"]
    /\ UNCHANGED <<authUrl, redirectHandled>>

\* fs.readFile(ONEDRIVE_REQUEST_FILE) answers
ReadDone(r) ==
    /\ poll[r] = "read"
    /\ IF ~fs["request"].exists
       THEN \* readFile throws: clearTimeout, reject(e)
            /\ poll' = [poll EXCEPT ![r] = "off"]
            /\ timeoutArmed' = [timeoutArmed EXCEPT ![r] = FALSE]
            /\ IF waitSt[r] = "pending"
               THEN /\ waitSt' = [waitSt EXCEPT ![r] = "rejected"]
                    /\ AuthUrlFailed(r)
               ELSE /\ Commit(G)
                    /\ UNCHANGED <<waitSt, pc, result, authUrl, redirectHandled>>
       ELSE IF trim(fs["request"].content) # <<>>
       THEN \* clearTimeout, resolve(content.trim())
            /\ poll' = [poll EXCEPT ![r] = "off"]
            /\ timeoutArmed' = [timeoutArmed EXCEPT ![r] = FALSE]
            /\ IF waitSt[r] = "pending"
               THEN /\ waitSt' = [waitSt EXCEPT ![r] = "resolved"]
                    /\ AuthUrlReceived(r, trim(fs["request"].content))
               ELSE /\ Commit(G)
                    /\ UNCHANGED <<waitSt, pc, result, authUrl, redirectHandled>>
       ELSE \* setTimeout(checkFile, 200)
            /\ poll' = [poll EXCEPT ![r] = "timer"]
            /\ Commit(G)
            /\ UNCHANGED <<timeoutArmed, waitSt, pc, result, authUrl, redirectHandled>>
    /\ UNCHANGED <<phase, installed, tokenLost, scope, exitHooks, closeHooks, rpc, redirUrl, faults,
                   syncVars>>

\* the 120000 ms timer fires: reject(new Error('Timeout ...')); the loop goes on
Timeout(r) ==
    /\ timeoutArmed[r]
    /\ timeoutArmed' = [timeoutArmed EXCEPT ![r] = FALSE]
    /\ IF waitSt[r] = "pending"
       THEN /\ waitSt' = [waitSt EXCEPT ![r] = "rejected"]
            /\ AuthUrlFailed(r)
       ELSE /\ Commit(G)
            /\ UNCHANGED <<waitSt, pc, result, authUrl, redirectHandled>>
    /\ UNCHANGED <<phase, installed, tokenLost, scope, exitHooks, closeHooks, poll, rpc, redirUrl, faults,
                   syncVars>>

\* ------------------------------------------------------------------ the auth window
\* tryHandle without its redirectHandled latch
tryHandle_NoLatch(handled, url, initialAuthUrl) == isRedirectUrl(url, initialAuthUrl)

\* the test of tryHandle(url)
tryHandle(handled, url, initialAuthUrl) ==
    ~handled /\ isRedirectUrl(url, initialAuthUrl)

\* tryHandle(url) on will-navigate, will-redirect, did-navigate,
\* did-navigate-in-page and the window-open handler
Navigate(r, url) ==
    /\ winSt[r] = "open"
    /\ IF tryHandle(redirectHandled[r], url, authUrl[r])
       THEN /\ redirectHandled' = [redirectHandled EXCEPT ![r] = TRUE]
            \* handleAuthRedirect up to `await fs.writeFile(...)`
            /\ rpc' = [rpc EXCEPT ![r] = "write"]
            /\ redirUrl' = [redirUrl EXCEPT ![r] = url]
       ELSE UNCHANGED <<redirectHandled, rpc, redirUrl>>
    /\ UNCHANGED <<progVars, envVars, pc, result, waitSt, poll, timeoutArmed, authUrl,
                   faults, syncVars, histVars>>

\* handleAuthRedirect after `await fs.writeFile(ONEDRIVE_RESPONSE_FILE, redirectUrl)`
handleAuthRedirect(g, r, url) ==
    LET g1 == [g EXCEPT !.fs["response"] = File(<<url>>)]
        g2 == IF g1.authWindow # 0
              THEN LET h == settleAuthRun(g1, r)
                   IN  [h EXCEPT !.winSt = close(@, h.authWindow), !.authWindow = 0]
              ELSE g1
    IN  send(g2, "auth-result", r, "success", "success")

\* the process the redirect handler waits for: 0 when it decides at once
awaited(g) ==
    IF g.onedriveProcess # 0 /\ ~g.proc[g.onedriveProcess].exitCode
    THEN g.onedriveProcess
    ELSE 0

RedirectWritten(r) ==
    /\ rpc[r] = "write"
    /\ rpc' = [rpc EXCEPT ![r] = "done"]
    /\ redirUrl' = [redirUrl EXCEPT ![r] = ""]
    /\ \E ok \in BOOLEAN :
         IF ok
         THEN LET g == handleAuthRedirect(G, r, redirUrl[r])
                  p == awaited(g)
              IN  IF p = 0
                  THEN /\ Commit(decideAfterExit(g, r))
                       /\ UNCHANGED <<exitHooks, closeHooks>>
                  ELSE /\ Commit(g)
                       /\ exitHooks' = [exitHooks EXCEPT ![p] = @ \cup {r}]
                       /\ closeHooks' = [closeHooks EXCEPT ![p] = @ \cup {r}]
         ELSE /\ Commit(failAuthFlow(G, "redirect-error", r))
              /\ UNCHANGED <<exitHooks, closeHooks>>
    /\ UNCHANGED <<phase, installed, tokenLost, scope, pc, result, waitSt, poll, timeoutArmed, authUrl,
                   redirectHandled, faults, syncVars>>

\* authWindow.once('closed')
onClosed(g, r) ==
    LET g1 == [g EXCEPT !.winSt[r] = "closed", !.authWindow = 0]
    IN  IF ~g1.settled[r] THEN failAuthFlow(g1, "cancelled", r) ELSE g1

\* a window that was told to close is destroyed
WindowClosed(r) ==
    /\ winSt[r] = "closing"
    /\ Commit(onClosed(G, r))
    /\ UNCHANGED <<phase, installed, tokenLost, scope, exitHooks, closeHooks, ctlVars, syncVars>>

\* the user closes the auth window
UserCloseWindow(r) ==
    /\ winSt[r] = "open"
    /\ Commit(onClosed(G, r))
    /\ UNCHANGED <<phase, installed, tokenLost, scope, exitHooks, closeHooks, ctlVars, syncVars>>

\* ------------------------------------------------------------------ the auth sub-process
\* the sub-process writes the authorization URL to request.url
ProcWriteRequest(p) ==
    /\ proc[p].st = "starting"
    /\ proc' = [proc EXCEPT ![p].st = "running"]
    /\ fs' = [fs EXCEPT !["request"] = File(RequestText)]
    /\ UNCHANGED <<progVars, phase, installed, tokenLost, scope, winSt, mon, exitHooks, closeHooks,
                   ctlVars, syncVars, histVars>>

\* the sub-process reads response.url and stores the refresh token
ProcWriteToken(p) ==
    /\ Alive(proc[p])
    /\ NonEmpty(fs["response"])
    /\ ~fs["token"].exists
    /\ fs' = [fs EXCEPT !["token"] = File(<<>>)]
    /\ UNCHANGED <<progVars, phase, installed, tokenLost, scope, winSt, proc, mon, exitHooks, closeHooks,
                   ctlVars, syncVars, histVars>>

\* 'close' follows 'exit' or 'error' once the stdio streams have ended; it is a
\* step of its own only when a once('close') listener waits for it
AfterExit(p) == IF closeHooks[p] = {} THEN "closed" ELSE "exited"

\* onedriveProcess.on('exit', (code, signal) => ...) of run p
onExit(g, p, outcome) ==
    LET g1 == [g EXCEPT !.onedriveProcess = 0]
    IN  IF outcome = "signal" THEN g1
        ELSE IF outcome # "zero" THEN failAuthFlow(g1, "exit-code", p)
        ELSE g1

\* the sub-process of run p ends: 'exit' is emitted to the listeners in order
ProcExit(p, outcome) ==
    /\ Alive(proc[p])
    /\ outcome = "signal" => proc[p].sig
    /\ LET g0 == [G EXCEPT !.proc[p] = Ended(AfterExit(p), outcome # "signal")]
       IN  Commit(decideAll(onExit(g0, p, outcome), exitHooks[p]))
    /\ exitHooks' = [exitHooks EXCEPT ![p] = {}]
    /\ UNCHANGED <<phase, installed, tokenLost, scope, closeHooks, ctlVars, syncVars>>

\* the spawn fails: 'error' is emitted instead of 'exit' (exitCode holds the errno)
ProcError(p) ==
    /\ proc[p].st = "starting"
    /\ LET g0 == [G EXCEPT !.proc[p] = Ended(AfterExit(p), TRUE)]
       IN  Commit(failAuthFlow(g0, "spawn-error", p))
    /\ UNCHANGED <<phase, installed, tokenLost, scope, exitHooks, closeHooks, ctlVars, syncVars>>

\* 'close' is emitted to its listeners
ProcClose(p) ==
    /\ proc[p].st = "exited"
    /\ LET g0 == [G EXCEPT !.proc[p].st = "closed"]
       IN  Commit(decideAll(g0, closeHooks[p]))
    /\ closeHooks' = [closeHooks EXCEPT ![p] = {}]
    /\ UNCHANGED <<phase, installed, tokenLost, scope, exitHooks, ctlVars, syncVars>>

\* ------------------------------------------------------------------ the monitor sub-process
\* monitors nothing refers to any more are interchangeable: the oldest ends first
Orphan(m) == m # onedriveMonitorProcess /\ Alive(mon[m]) /\ mon[m].sig

\* the force-sync invocations whose stop listeners sit on monitor m
Stoppers(m) == {k \in Syncs : stopTarget[k] = m}

\* what follows `await stopOnedriveMonitorGracefully()` once it resolved true:
\* the info event and the spawn of the one-shot sync
afterStop(g) == send(g, "sync-result", 0, "info", "monitor-stopped")

\* a listener that forgets clearTimeout(timeout)
clearTimeout_Forgotten(timers, S) == timers

\* clearTimeout(timeout) in the listeners of the calls in S
clearTimeout(timers, S) == [k \in Syncs |-> IF k \in S THEN FALSE ELSE timers[k]]

\* `done` of stopOnedriveMonitorGracefully without its `resolved` flag
unresolved_NoFlag(k) == TRUE

\* `!resolved` in `done` of the stopOnedriveMonitorGracefully call of invocation k
unresolved(k) == spc[k] = "stopping"

\* resolve(true) reaches the handlers in W: wasRunning is true and the one-shot
\* sync is spawned
Resume(W) ==
    /\ spc' = [k \in Syncs |-> IF k \in W THEN "sync" ELSE spc[k]]
    /\ wasRunning' = [k \in Syncs |-> IF k \in W THEN TRUE ELSE wasRunning[k]]
    /\ spawned' = [k \in Syncs |->
                     IF k \in W THEN spawned[k] \cup {"onedrive"} ELSE spawned[k]]

\* a monitor ends: its on('exit') listener only logs; the once('exit') listener of
\* stopOnedriveMonitorGracefully clears the timer and the reference and resolves
MonExit(m) ==
    /\ m \in 1..Len(mon)
    /\ Alive(mon[m])
    /\ Orphan(m) => \A k \in 1..(m - 1) : ~Orphan(k)
    /\ LET S == Stoppers(m)
           W == {k \in S : unresolved(k)}
           g0 == [G EXCEPT !.mon[m] =
                     Ended(IF S = {} THEN "closed" ELSE "exited", TRUE)]
           g1 == IF S = {} THEN g0 ELSE [g0 EXCEPT !.onedriveMonitorProcess = 0]
       IN  /\ Commit(IF W = {} THEN g1 ELSE afterStop(g1))
           /\ stopTimer' = clearTimeout(stopTimer, S)
           /\ Resume(W)
    /\ UNCHANGED <<phase, installed, tokenLost, scope, exitHooks, closeHooks, ctlVars, sres,
                   monTouched, stopTarget, forced>>

\* 'close' of a monitor reaches the once('close') listener of
\* stopOnedriveMonitorGracefully: it clears the timer and the reference once more
MonClose(m) ==
    /\ m \in 1..Len(mon)
    /\ mon[m].st = "exited"
    /\ Stoppers(m) # {}
    /\ LET S == Stoppers(m)
           W == {k \in S : unresolved(k)}
           g1 == [G EXCEPT !.mon[m].st = "closed", !.onedriveMonitorProcess = 0]
       IN  /\ Commit(IF W = {} THEN g1 ELSE afterStop(g1))
           /\ stopTimer' = clearTimeout(stopTimer, S)
           /\ Resume(W)
    /\ stopTarget' = [k \in Syncs |-> IF stopTarget[k] = m THEN 0 ELSE stopTarget[k]]
    /\ UNCHANGED <<phase, installed, tokenLost, scope, exitHooks, closeHooks, ctlVars, sres,
                   monTouched, forced>>

\* ------------------------------------------------------------------ 'force-sync'
\* the handler up to `await checkOnedriveInstallation()`, which spawns `which`
ForceSync(k) ==
    /\ phase = "ready"
    /\ spc[k] = "idle"
    /\ \A j \in Syncs : j < k => spc[j] # "idle"
    /\ scope = "auth" => k = 1
    /\ Load + 1 <= MaxLoad
    /\ spc' = [spc EXCEPT ![k] = "which"]
    /\ spawned' = [spawned EXCEPT ![k] = {"which"}]
    /\ UNCHANGED <<progVars, envVars, ctlVars, sres, monTouched, wasRunning,
                   stopTarget, stopTimer, forced, histVars>>

\* the precondition checks that skip the token check
forceSyncPreconditions_NoTokenCheck(g) ==
    IF ~checkOnedriveInstallation THEN "onedrive-not-installed" ELSE "ok"

\* the precondition checks of the handler, in the order of the code
forceSyncPreconditions(g) ==
    IF ~checkOnedriveInstallation THEN "onedrive-not-installed"
    ELSE IF ~g.fs["token"].exists THEN "no-token"
    ELSE "ok"

\* `which` has answered: the precondition checks and, when they pass, the
\* synchronous part of stopOnedriveMonitorGracefully
SyncPreconditions(k) ==
    /\ spc[k] = "which"
    /\ LET pre == forceSyncPreconditions(G)
           m == onedriveMonitorProcess
       IN  IF pre # "ok"
           THEN /\ Commit(send(G, "sync-result", 0, "error", pre))
                /\ sres' = [sres EXCEPT ![k] = pre]
                /\ spc' = [spc EXCEPT ![k] = "done"]
                /\ UNCHANGED <<spawned, monTouched, wasRunning, stopTarget, stopTimer>>
           ELSE IF m = 0 \/ ~Alive(mon[m])
           THEN \* no reference, or process.kill throws: resolves false
                /\ spc' = [spc EXCEPT ![k] = "sync"]
                /\ spawned' = [spawned EXCEPT ![k] = @ \cup {"onedrive"}]
                /\ UNCHANGED <<progVars, fs, winSt, proc, mon, histVars, sres,
                               monTouched, wasRunning, stopTarget, stopTimer>>
           ELSE /\ Commit([G EXCEPT !.mon = kill(@, m)])
                /\ spc' = [spc EXCEPT ![k] = "stopping"]
                /\ monTouched' = [monTouched EXCEPT ![k] = TRUE]
                /\ stopTarget' = [stopTarget EXCEPT ![k] = m]
                /\ stopTimer' = [stopTimer EXCEPT ![k] = TRUE]
                /\ UNCHANGED <<sres, spawned, wasRunning>>
    /\ UNCHANGED <<phase, installed, tokenLost, scope, exitHooks, closeHooks, ctlVars,
                   forced>>

\* the 3 s timer of stopOnedriveMonitorGracefully fires: SIGKILL, the reference
\* is cleared, a warning is sent and the promise resolves true
StopTimeout(k) ==
    /\ stopTimer[k]
    /\ LET W == IF unresolved(k) THEN {k} ELSE {}
           g1 == send([G EXCEPT !.onedriveMonitorProcess = 0],
                      "sync-result", 0, "warning", "forced-kill")
       IN  /\ Commit(IF W = {} THEN g1 ELSE afterStop(g1))
           /\ Resume(W)
    /\ forced' = forced \cup {stopTarget[k]}
    /\ stopTimer' = [stopTimer EXCEPT ![k] = FALSE]
    /\ UNCHANGED <<phase, installed, tokenLost, scope, exitHooks, closeHooks, ctlVars, sres,
                   monTouched, stopTarget>>

\* spawn('onedrive', ... '--sync') fails: the sub-process emits 'error' and no
\* 'exit'; p has no 'error' listener, so the event is thrown and ends in
\* process.on('uncaughtException'), and the promise of the handler stays pending
SyncSpawnError(k) ==
    /\ spc[k] = "sync"
    /\ faults < MaxFaults
    /\ Load + 1 <= MaxLoad
    /\ faults' = faults + 1
    /\ spc' = [spc EXCEPT ![k] = "hung"]
    /\ Commit(failAuthFlow(G, "unknown-fault", activeAuthRun))
    /\ UNCHANGED <<phase, installed, tokenLost, scope, exitHooks, closeHooks, pc, result,
                   waitSt, poll, timeoutArmed, authUrl, redirectHandled, rpc, redirUrl,
                   sres, spawned, monTouched, wasRunning, stopTarget, stopTimer, forced>>

\* p.on('exit') of the one-shot sync and the rest of the handler
SyncExit(k, outcome) ==
    /\ spc[k] = "sync"
    /\ outcome \in {"zero", "nonzero"}
    /\ LET syncOk == outcome = "zero"
           g1 == IF syncOk
                 THEN send(G, "sync-result", 0, "success", "sync-done")
                 ELSE send(G, "sync-result", 0, "error", "sync-failed")
           restart == wasRunning[k] \/ syncOk
       IN  /\ Commit(IF restart THEN startOnedriveMonitor(g1) ELSE g1)
           /\ monTouched' = [monTouched EXCEPT ![k] = @ \/ restart]
           /\ sres' = [sres EXCEPT ![k] = IF syncOk THEN "ok" ELSE "failed"]
    /\ spc' = [spc EXCEPT ![k] = "done"]
    /\ UNCHANGED <<phase, installed, tokenLost, scope, exitHooks, closeHooks, ctlVars, spawned,
                   wasRunning, stopTarget, stopTimer, forced>>

\* ------------------------------------------------------------------ the files
\* refresh_token is removed from outside (a logout of the client, the user)
TokenRemoved ==
    /\ phase = "ready"
    /\ fs["token"].exists
    /\ ~tokenLost
    /\ Load + 1 <= MaxLoad
    /\ tokenLost' = TRUE
    /\ fs' = [fs EXCEPT !["token"] = NoFile]
    /\ UNCHANGED <<progVars, phase, installed, scope, winSt, proc, mon, exitHooks,
                   closeHooks, ctlVars, syncVars, histVars>>

\* ------------------------------------------------------------------ process-wide handlers
\* process.on('uncaughtException') / process.on('unhandledRejection')
UncaughtFault(kind) ==
    /\ faults < MaxFaults
    /\ Load + 1 <= MaxLoad
    /\ faults' = faults + 1
    /\ kind \in {"uncaughtException", "unhandledRejection"}
    /\ Commit(failAuthFlow(G, "unknown-fault", activeAuthRun))
    /\ UNCHANGED <<phase, installed, tokenLost, scope, exitHooks, closeHooks, pc, result, waitSt, poll,
                   timeoutArmed, authUrl, redirectHandled, rpc, redirUrl,
                   syncVars>>

\* app.on('before-quit')
beforeQuit(g) ==
    LET g1 == [g EXCEPT !.isQuitting = TRUE]
        g2 == IF g1.onedriveProcess # 0
              THEN [g1 EXCEPT !.proc = kill(@, g1.onedriveProcess)] ELSE g1
        g3 == IF g2.onedriveMonitorProcess # 0
              THEN [g2 EXCEPT !.mon = kill(@, g2.onedriveMonitorProcess)] ELSE g2
    IN  IF g3.authWindow # 0
        THEN [g3 EXCEPT !.winSt = close(@, g3.authWindow)] ELSE g3

BeforeQuit ==
    /\ ~isQuitting
    /\ Load + 1 <= MaxLoad
    /\ Commit(beforeQuit(G))
    /\ UNCHANGED <<phase, installed, tokenLost, scope, exitHooks, closeHooks, ctlVars, syncVars>>

\* ------------------------------------------------------------------ specification
Next ==
    \/ Startup
    \/ \E r \in Runs : StartAuth(r)
    \/ \E r \in Runs : CheckInstalled(r)
    \/ \E r \in Runs : UnlinkRequest(r)
    \/ \E r \in Runs : UnlinkResponse(r)
    \/ \E r \in Runs : PollTimer(r)
    \/ \E r \in Runs : ReadDone(r)
    \/ \E r \in Runs : Timeout(r)
    \/ \E r \in Runs, u \in NavUrls : Navigate(r, u)
    \/ \E r \in Runs : RedirectWritten(r)
    \/ \E r \in Runs : WindowClosed(r)
    \/ \E r \in Runs : UserCloseWindow(r)
    \/ \E p \in Runs : ProcWriteRequest(p)
    \/ \E p \in Runs : ProcWriteToken(p)
    \/ \E p \in Runs, o \in {"zero", "nonzero", "signal"} : ProcExit(p, o)
    \/ \E p \in Runs : ProcError(p)
    \/ \E p \in Runs : ProcClose(p)
    \/ \E m \in 1..Len(mon) : MonExit(m)
    \/ \E m \in 1..Len(mon) : MonClose(m)
    \/ \E k \in Syncs : ForceSync(k)
    \/ \E k \in Syncs : SyncPreconditions(k)
    \/ \E k \in Syncs : StopTimeout(k)
    \/ \E k \in Syncs : SyncSpawnError(k)
    \/ \E k \in Syncs, o \in {"zero", "nonzero"} : SyncExit(k, o)
    \/ \E k \in {"uncaughtException", "unhandledRejection"} : UncaughtFault(k)
    \/ BeforeQuit
    \/ TokenRemoved

Spec == Init /\ [][Next]_vars

SyncSpec == SyncInit /\ [][Next]_vars

\* ------------------------------------------------------------------ ensureOnedriveConfig alone
\* the lines a configuration file is made of, and the files of up to
\* MaxConfigLines lines
ConfigLines ==
    { [key |-> k, val |-> "custom"] : k \in {"sync_dir", "skip_file", "my_sync_dir"} }
    \cup { DefaultConfig[i] : i \in 1..Len(DefaultConfig) }

ConfigFiles ==
    {NoFile} \cup { File(c) : c \in UNION { [1..n -> ConfigLines] : n \in 0..MaxConfigLines } }

ConfigInit == BootWith(ConfigFiles) /\ scope = "config"

\* one call of ensureOnedriveConfig()
EnsureConfig ==
    /\ fs' = ensureOnedriveConfig(fs)
    /\ UNCHANGED <<progVars, phase, installed, winSt, proc, mon, tokenLost, scope,
                   exitHooks, closeHooks, ctlVars, syncVars, histVars>>

ConfigNext == EnsureConfig

ConfigSpec == ConfigInit /\ [][ConfigNext]_vars

\* ------------------------------------------------------------------ events of a run
Terminal(e) == e.status \in {"completed", "error"}
Count(seq, P(_)) == Cardinality({i \in 1..Len(seq) : P(seq[i])})
\* the events a step adds to the log of run r
New(r) == SubSeq(ui'[r], Len(ui[r]) + 1, Len(ui'[r]))
Has(seq, st) == \E i \in 1..Len(seq) : seq[i].status = st
HasMsg(seq, m) == \E i \in 1..Len(seq) : seq[i].message = m
Begun(r) == pc[r] # "idle"

\* ------------------------------------------------------------------ C1
\* C1: for every auth run at most one terminal event (`completed` or `error`)
\* reaches the presentation layer on 'auth-result'.
C1_AtMostOneTerminalEvent ==
    \A r \in Runs : Count(ui[r], Terminal) <= 1

\* ------------------------------------------------------------------ C2
\* C2: `settled` never returns to false, and settleAuthRun / failAuthFlow called on
\* a settled run change nothing the program holds and emit no event.
C2_CallOnSettledIsNoop ==
    \A r \in Runs : settled[r] =>
        /\ Prog(failAuthFlow(G, "cancelled", r)) = Prog(G)
        /\ Prog(settleAuthRun(G, r)) = Prog(G)

C2_SettledStays == \A r \in Runs : settled[r] => settled'[r]

C2_SettledOnce == []C2_CallOnSettledIsNoop /\ [][C2_SettledStays]_vars

\* a settled run on which settleAuthRun or failAuthFlow was called again
C2_Witness == lateCall /\ \E r \in Runs : settled[r]

\* ------------------------------------------------------------------ C3
\* C3: in every reachable state at most one AuthRun is unsettled.
C3_AtMostOneUnsettled ==
    Cardinality({r \in Runs : Begun(r) /\ ~settled[r]}) <= 1

\* ------------------------------------------------------------------ C4
\* Nothing is pending for run r any more: its handler returned, its redirect
\* handler is not running, its sub-process and its window are gone, no listener
\* waits for it and it is not the run a process-wide fault would fail.
Quiescent(r) ==
    /\ pc[r] = "done"
    /\ rpc[r] # "write"
    /\ proc[r].st \in {"none", "closed"}
    /\ winSt[r] \in {"none", "closed"}
    /\ ~timeoutArmed[r]
    /\ activeAuthRun # r
    /\ \A p \in Runs : r \notin exitHooks[p] \cup closeHooks[p]

\* C4: every AuthRun that has begun is eventually settled; in its finite form: a
\* run for which nothing is pending any more is settled.
C4_NoRunLeftUnsettled ==
    \A r \in Runs : Quiescent(r) => settled[r]

\* ------------------------------------------------------------------ C5
\* C5: a run whose redirect was classified stays unsettled while the response file
\* is written and the window is closed: the step that writes the file while the
\* sub-process of the run is still alive does not settle the run.
C5_RedirectDoesNotSettle ==
    [][\A r \in Runs :
         (rpc[r] = "write" /\ rpc'[r] = "done" /\ ~settled[r]
            /\ Has(New(r), "success") /\ Alive(proc'[r]))
         => ~settled'[r]]_vars

\* ------------------------------------------------------------------ C6
\* C6: the token check is made only after the sub-process of the run has exited;
\* `completed` is emitted and the monitor started iff the token file is present
\* at the check, otherwise a failure is emitted and no monitor is started.
C6_DecideAfterExit ==
    [][\A r \in Runs :
         /\ Has(New(r), "completed") =>
               ~Alive(proc'[r]) /\ fs["token"].exists /\ Len(mon') > Len(mon)
         /\ HasMsg(New(r), "no-token") =>
               ~Alive(proc'[r]) /\ ~fs["token"].exists /\ Len(mon') = Len(mon)]_vars

\* ------------------------------------------------------------------ C7
\* the user closes the window of run r before a redirect was classified
UserCancels(r) ==
    winSt[r] = "open" /\ winSt'[r] = "closed" /\ ~redirectHandled[r] /\ ~isQuitting

\* C7: when the window is closed before a redirect was classified the run is
\* settled with one cancellation `error`, its sub-process is sent a kill signal
\* and the reference to it is cleared; no `success` or `completed` follows.
C7_CancelStep ==
    \A r \in Runs : UserCancels(r) =>
        /\ settled'[r]
        /\ ui'[r] = Append(ui[r], [status |-> "error", message |-> "cancelled"])
        /\ Alive(proc'[r]) => proc'[r].sig
        /\ onedriveProcess' # r

C7_NothingAfterCancel ==
    \A r \in Runs : \A i \in 1..Len(ui[r]) :
        ui[r][i].message = "cancelled" =>
            \A j \in (i + 1)..Len(ui[r]) : ui[r][j].status \notin {"success", "completed"}

C7_UserCancel == []C7_NothingAfterCancel /\ [][C7_CancelStep]_vars

\* ------------------------------------------------------------------ C8
\* C8: at the first poll of waitForAuthUrl (the step that starts the wait) both
\* auth files are absent or empty.
C8_AuthFilesClearedAtFirstPoll ==
    [][\A r \in Runs :
         (pc[r] # "wait" /\ pc'[r] = "wait") =>
            ~NonEmpty(fs'["request"]) /\ ~NonEmpty(fs'["response"])]_vars

\* ------------------------------------------------------------------ C9
NotInstalledEvent == [status |-> "error", message |-> "not-installed"]

C9_Outcome ==
    \A r \in Runs : result[r] = "onedrive-not-installed" =>
        /\ settled[r]
        /\ proc[r].st = "none"
        /\ winSt[r] = "none"
        /\ Cardinality({i \in 1..Len(ui[r]) : ui[r][i] = NotInstalledEvent}) = 1

\* a step of the handler of run r while the client is not installed
C9_HandlerStep ==
    \A r \in Runs : (~installed /\ pc'[r] # pc[r]) =>
        /\ fs' = fs /\ proc' = proc /\ winSt' = winSt /\ mon' = mon
        /\ pc[r] = "idle" => pc'[r] = "check" /\ ui'[r] = ui[r]
        /\ pc[r] = "check" =>
              /\ pc'[r] = "done"
              /\ result'[r] = "onedrive-not-installed"
              /\ ui'[r] = Append(ui[r], NotInstalledEvent)
              /\ settled'[r]

\* C9: with the client not installed 'start-onedrive-auth' fails at once with
\* reason onedrive-not-installed: one `error` event, the run settled, no auth
\* sub-process, no auth window, auth files and configuration untouched.
C9_NotInstalledFailsAtOnce == []C9_Outcome /\ [][C9_HandlerStep]_vars

C9_Witness ==
    \E r \in Runs : result[r] = "onedrive-not-installed" /\ Len(ui[r]) = 1

\* ------------------------------------------------------------------ C10
\* the step in which the handler of invocation k passes from the installation
\* check to its precondition decision
SyncDecides(k) == spc[k] = "which" /\ spc'[k] # "which"

\* the handler returns no-token and leaves the monitor alone
NoTokenReturn(k) ==
    /\ spc'[k] = "done"
    /\ sres'[k] = "no-token"
    /\ mon' = mon
    /\ onedriveMonitorProcess' = onedriveMonitorProcess
    /\ ~monTouched'[k]

\* C10 as stated: the preconditions are checked in order (installed, then token);
\* with the client installed and no token the handler returns failed / no-token,
\* has spawned no sub-process at all and neither stops nor starts the monitor.
C10_NoTokenSpawnsNothing ==
    [][\A k \in Syncs : SyncDecides(k) =>
         /\ ~installed => sres'[k] = "onedrive-not-installed"
         /\ (installed /\ ~fs["token"].exists) =>
               NoTokenReturn(k) /\ spawned'[k] = {}]_vars

C10_Step ==
    \A k \in Syncs : SyncDecides(k) =>
        /\ ~installed => sres'[k] = "onedrive-not-installed"
        /\ (installed /\ ~fs["token"].exists) =>
              NoTokenReturn(k) /\ spawned'[k] = {"which"}

C10_Returned ==
    \A k \in Syncs : sres[k] = "no-token" =>
        spc[k] = "done" /\ "onedrive" \notin spawned[k] /\ ~monTouched[k]

\* C10 amended: the preconditions are checked in order (installed, then token);
\* with the client installed and no token the handler returns failed / no-token,
\* has spawned nothing but the `which` probe of the installation check (no
\* onedrive sub-process) and neither stops nor starts the monitor.
C10_NoTokenSpawnsOnlyProbe == []C10_Returned /\ [][C10_Step]_vars

\* a force-sync that returned no-token while a monitor was running
C10_Witness ==
    \E k \in Syncs :
        /\ sres[k] = "no-token" /\ installed /\ spawned[k] = {"which"}
        /\ onedriveMonitorProcess # 0 /\ Alive(mon[onedriveMonitorProcess])

\* ------------------------------------------------------------------ C11
\* a monitor sub-process is alive and was not told to end
RunningMon == \E m \in 1..Len(mon) : Alive(mon[m]) /\ ~mon[m].sig

\* the handler of invocation k passes its preconditions
SyncPasses(k) == SyncDecides(k) /\ spc'[k] # "done"

\* the handler of invocation k finishes after its sync sub-process ended
SyncFinishes(k) == spc[k] = "sync" /\ spc'[k] = "done"

\* a monitor that runs when the preconditions pass is stopped by the handler
C11_RunningIsStopped ==
    \A k \in Syncs : (SyncPasses(k) /\ RunningMon) => spc'[k] = "stopping"

\* wasRunning is true iff the handler stopped a monitor; at the end the monitor
\* is started iff wasRunning or the sync exited with code 0
C11_Restart ==
    \A k \in Syncs :
        /\ (spc[k] = "stopping" /\ spc'[k] # "stopping") => wasRunning'[k]
        /\ (SyncPasses(k) /\ spc'[k] = "sync") => ~wasRunning'[k]
        /\ SyncFinishes(k) =>
              /\ wasRunning'[k] = wasRunning[k]
              /\ (Len(mon') > Len(mon)) <=> (wasRunning[k] \/ sres'[k] = "ok")
              /\ Len(mon') > Len(mon) =>
                    /\ onedriveMonitorProcess' = Len(mon')
                    /\ Alive(mon'[Len(mon')]) /\ ~mon'[Len(mon')].sig

\* C11: when a force-sync that passed its preconditions finishes, the monitor
\* has been (re)started iff it was running before the sync or the sync exited
\* with code 0.
C11_MonitorResumed == [][C11_RunningIsStopped /\ C11_Restart]_vars

\* ------------------------------------------------------------------ C12
\* C12: every force-sync invocation returns `ok` or `failed` and never hangs; in
\* its finite form: no handler is left waiting for an 'exit' event of a sync
\* sub-process that will never emit one.
C12_ForceSyncNeverHangs == \A k \in Syncs : spc[k] # "hung"

\* ------------------------------------------------------------------ C13
\* C13: no duplicate monitors: at most one monitor sub-process is alive without
\* having been sent a termination signal.
C13_NoDuplicateMonitors ==
    Cardinality({m \in 1..Len(mon) : Alive(mon[m]) /\ ~mon[m].sig}) <= 1

\* ------------------------------------------------------------------ C14
\* a call that has not resolved still has its timer: some path will resolve it
C14_Pending == \A k \in Syncs : spc[k] = "stopping" => stopTimer[k]

C14_Step ==
    \A k \in Syncs :
        \* the call: false at once without a reference (or with a dead one),
        \* pending when the referenced monitor is running
        /\ SyncPasses(k) =>
              IF onedriveMonitorProcess # 0 /\ Alive(mon[onedriveMonitorProcess])
              THEN spc'[k] = "stopping"
              ELSE spc'[k] = "sync" /\ ~wasRunning'[k]
        \* the first of timer, 'exit' and 'close' resolves it true
        /\ (spc[k] = "stopping" /\ spc'[k] # "stopping") =>
              spc'[k] = "sync" /\ wasRunning'[k]
        \* a path that fires later resolves nothing: the handler is not resumed again
        /\ spc[k] \in {"sync", "done", "hung"} =>
              /\ wasRunning'[k] = wasRunning[k]
              /\ spawned'[k] = spawned[k]
              /\ spc'[k] = spc[k] \/ (spc[k] = "sync" /\ spc'[k] \in {"done", "hung"})

ForcedWarning == [channel |-> "sync-result", status |-> "warning", message |-> "forced-kill"]

\* the monitor that invocation k is stopping emits 'exit' while the timer is armed
ExitBeforeTimer(k) ==
    /\ stopTimer[k]
    /\ Alive(mon[stopTarget[k]])
    /\ ~Alive(mon'[stopTarget[k]])

\* the 3 s timer of invocation k fires
TimerFires(k) == stopTimer[k] /\ ~stopTimer'[k] /\ mon' = mon

C15_Step ==
    /\ \A k \in Syncs :
          /\ ExitBeforeTimer(k) =>
                /\ ~stopTimer'[k] /\ wasRunning'[k] /\ spc'[k] = "sync"
                /\ forced' = forced
                /\ ForcedWarning \in uiOther' => ForcedWarning \in uiOther
          /\ TimerFires(k) =>
                /\ stopTarget[k] \in forced'
                /\ onedriveMonitorProcess' = 0
                /\ ForcedWarning \in uiOther'
                /\ wasRunning'[k] /\ spc'[k] = "sync"
    \* SIGKILL and the warning come from a timer that fires, and from nothing else
    /\ (forced' # forced \/ (ForcedWarning \in uiOther' /\ ForcedWarning \notin uiOther))
          => \E k \in Syncs : TimerFires(k)

\* a timer is armed only while the call is pending and its monitor has not
\* reported exit: once the monitor exited the timer can no longer fire
C15_TimerCancelled ==
    \A k \in Syncs : stopTimer[k] =>
        spc[k] = "stopping" /\ stopTarget[k] # 0 /\ Alive(mon[stopTarget[k]])

\* C15: if the monitor reports exit before the 3 s timer fires the call resolves
\* true, the timer is cancelled and neither SIGKILL nor the warning is produced;
\* if the timer fires, SIGKILL is sent, the reference is cleared, the warning is
\* emitted and the call resolves true.
C15_GracefulThenForced == []C15_TimerCancelled /\ [][C15_Step]_vars

\* a call resolved by the 'exit' of its monitor, with no SIGKILL and no warning
C15_Witness ==
    \E k \in Syncs :
        /\ wasRunning[k] /\ ~stopTimer[k] /\ stopTarget[k] # 0
        /\ ~Alive(mon[stopTarget[k]])
        /\ forced = {} /\ ForcedWarning \notin uiOther

\* ------------------------------------------------------------------ C16
\* C16: once the before-quit handler has run, no status event on 'auth-result'
\* or 'sync-result' is delivered to the presentation layer.
C16_SilentAfterQuit ==
    [][isQuitting => (ui' = ui /\ uiOther' = uiOther)]_vars

\* ------------------------------------------------------------------ C17
\* C17: ensureOnedriveConfig never overwrites an existing configuration file: a
\* call leaves a file that exists as it is.
C17_ExistingConfigKept ==
    [][fs["config"].exists => fs'["config"] = fs["config"]]_vars

\* ------------------------------------------------------------------ C18
\* handleAuthRedirect is called for the window of run r
RedirectHandlerStarts(r) ==
    rpc'[r] = "write" /\ (rpc[r] # "write" \/ redirUrl'[r] # redirUrl[r])

C18_Step ==
    \A r \in Runs :
        \* the handler starts once, with the latch unset, on a URL the classifier accepts
        /\ RedirectHandlerStarts(r) =>
              /\ rpc[r] = "idle" /\ ~redirectHandled[r] /\ redirectHandled'[r]
              /\ isRedirectUrl(redirUrl'[r], authUrl[r])
        \* every later event is a no-op: the latch stays and the URL is kept
        /\ redirectHandled[r] => redirectHandled'[r]
        /\ (rpc[r] = "write" /\ rpc'[r] = "write") => redirUrl'[r] = redirUrl[r]
        /\ rpc[r] = "done" => rpc'[r] = "done"
        \* the response file gets the full text of that URL (unless the write fails)
        /\ (rpc[r] = "write" /\ rpc'[r] = "done") =>
              \/ fs'["response"] = File(<<redirUrl[r]>>)
              \/ fs'["response"] = fs["response"]

\* C18: for one auth window the redirect handler runs at most once, on the first
\* URL the classifier accepts; later navigation events are no-ops and the
\* response file holds the full text of that URL.
C18_RedirectHandledOnce == [][C18_Step]_vars

\* the handler of a window has run and the response file holds its redirect URL
C18_Witness ==
    \E r \in Runs :
        /\ redirectHandled[r] /\ rpc[r] = "done"
        /\ fs["response"].exists /\ Len(fs["response"].content) = 1
        /\ isRedirectUrl(fs["response"].content[1], authUrl[r])

\* ------------------------------------------------------------------ C19
\* the promise of waitForAuthUrl of run r is rejected in this step
WaitFails(r) == waitSt[r] = "pending" /\ waitSt'[r] = "rejected"

\* the step is the firing of the 120000 ms timer of run r, not a poll
TimeoutFires(r) == timeoutArmed[r] /\ ~timeoutArmed'[r] /\ poll'[r] = poll[r]

\* C19: the only failure of waitForAuthUrl is the 120000 ms timeout; a request
\* file that is absent, empty, whitespace-only or removed between polls never
\* makes it fail.
C19_OnlyTimeoutFails == [][\A r \in Runs : WaitFails(r) => TimeoutFires(r)]_vars

\* ------------------------------------------------------------------ C20
\* C20: the auth-process reference and the monitor-process reference never
\* refer to a sub-process that has already exited.
C20_ReferencesAreLive ==
    /\ onedriveProcess # 0 => Alive(proc[onedriveProcess])
    /\ onedriveMonitorProcess # 0 => Alive(mon[onedriveMonitorProcess])

\* ------------------------------------------------------------------ C21
\* C21: the exit, close and timer observers of one stopOnedriveMonitorGracefully
\* call do not clear the reference to a newer monitor: whenever the most
\* recently started monitor is alive and unsignalled, onedriveMonitorProcess
\* refers to it.
C21_NewestMonitorReferenced ==
    (Len(mon) > 0 /\ Alive(mon[Len(mon)]) /\ ~mon[Len(mon)].sig)
        => onedriveMonitorProcess = Len(mon)

\* ------------------------------------------------------------------ C22
\* the one-shot `onedrive --sync` sub-process of force-sync call k is running
SyncRunning(k) == spc[k] = "sync"

\* C22: a one-shot sync sub-process never runs while a monitor sub-process is
\* alive.
C22_SyncExcludesMonitor ==
    \A k \in Syncs : SyncRunning(k) => \A m \in 1..Len(mon) : ~Alive(mon[m])

\* ------------------------------------------------------------------ C23
\* the promise of waitForAuthUrl of run r has resolved or failed
WaitSettled(r) == waitSt[r] \in {"resolved", "rejected"}

\* the poll timers that are pending are those of runs still waiting for their URL
C23_TimersBounded ==
    Cardinality({r \in Runs : poll[r] = "timer"})
        <= Cardinality({r \in Runs : waitSt[r] = "pending"})

\* a settled call does not schedule setTimeout(checkFile, 200) again
C23_NoPollAfterSettle ==
    \A r \in Runs : (WaitSettled(r) /\ poll[r] # "timer") => poll'[r] # "timer"

\* C23: once a waitForAuthUrl call has resolved or failed (including by
\* timeout) it schedules no further poll of the request file; the number of
\* pending poll timers is bounded by the number of auth runs still waiting.
C23_PollingStops == []C23_TimersBounded /\ [][C23_NoPollAfterSettle]_vars

====
